---- MODULE Spec2Model ----
(***************************************************************************)
(* A model of Gomokrust: the m,n,k board (src/src/board.rs), the move      *)
(* string parser, and the PUCT search tree (src/src/mcts.rs).              *)
(*                                                                         *)
(* Coordinates are the code's: an Action is <<row, col>>, 0-based (TLA+    *)
(* tuples are indexed from 1, so a[1] is the code's action[0]).            *)
(***************************************************************************)
EXTENDS Integers, Sequences, FiniteSets, TLC

VARIABLES
    overflow_checks, \* build profile: TRUE = arithmetic overflow panics (debug)
    board,           \* the driver's Board
    result,          \* outcome of the last call: "None", "Ok", "Err", "Panic",
                     \* "Unit" for a call that returns ()
    input,           \* the move string handed to parse_string_to_action
    parsed,          \* what parse_string_to_action made of it
    script,          \* the move strings a test driver replays
    pos,             \* index of the next move string of the script
    pc,              \* where the driver / get_best_action stands
    exploratory_play,\* get_best_action's mode
    n_iterations,    \* MCTS::n_iterations
    mcts_board,      \* MCTS::board, the engine's clone of the position
    nodes,           \* the tree under MCTS::root: path |-> Node
    loop_i,          \* get_best_action's loop counter i
    scratch,         \* the board clone one iteration plays on
    node,            \* iteration's `node`: path of the node selection stands on
    parents_pointers,\* iteration's parents_pointers: the paths pushed so far
    value,           \* the value expand returned
    best_action,     \* what get_best_action returned
    board_vecs,      \* self_play_single_game: the positions recorded so far
    game_json        \* self_play_single_game: the records written

bvars == <<overflow_checks, board, result>>
pvars == <<input, parsed>>
svars == <<script, pos, pc, exploratory_play, n_iterations, mcts_board, nodes, loop_i,
           scratch, node, parents_pointers, value, best_action>>
jvars == <<board_vecs, game_json>>
vars == <<bvars, pvars, svars, jvars>>

(***************************************************************************)
(* Bounds of the model.                                                    *)
(***************************************************************************)
MaxSize == 3          \* boards of size 2..MaxSize are built
MaxStringLen == 3     \* move strings of up to MaxStringLen characters are typed

(***************************************************************************)
(* board.rs: Player, SquareState, Outcome                                  *)
(***************************************************************************)
Black == "Black"
White == "White"
Vacant == "Vacant"
Player == {Black, White}

\* a turn that never passes to the other player
opposite_same(p) == p

opposite(p) == IF p = White THEN Black ELSE White

NoOutcome == <<>>
Draw == <<"Draw">>
Winner(p) == <<"Winner", p>>

(***************************************************************************)
(* usize arithmetic.  A usize value v is represented by the integer v when *)
(* v is small and by v - 2^64 when it is the cast of a negative i32, so    *)
(* `(x as i32 + offset) as usize` is x + offset in this representation.    *)
(* Adding a small b to a wraps around 2^64 exactly when the representative *)
(* goes from negative to non-negative.                                     *)
(***************************************************************************)
UsizeAddOverflows(a, b) == a < 0 /\ a + b >= 0
UsizeAdd(a, b) == a + b

(***************************************************************************)
(* Board geometry                                                          *)
(***************************************************************************)
base_board_padding(b) == b.n_in_a_row - 1

base_board_size(b) == b.size + base_board_padding(b) * 2

action_to_base_board_location(b, action) ==
    <<UsizeAdd(action[1], base_board_padding(b)),
      UsizeAdd(action[2], base_board_padding(b))>>

\* an index that forgets the column
action_to_flat_index_of_row(b, action) == action[1] * b.size

action_to_flat_index(b, action) == action[1] * b.size + action[2]

\* ndarray indexing: a location outside the array panics
InBaseBoard(b, loc) ==
    /\ loc[1] >= 0 /\ loc[1] < base_board_size(b)
    /\ loc[2] >= 0 /\ loc[2] < base_board_size(b)

BaseBoardNew(n) == [loc \in (0 .. n - 1) \X (0 .. n - 1) |-> Vacant]

\* an occupancy test that only sees the mover's own stones
is_occupied_by_turn(b, loc) == b.base_board[loc] = b.turn

is_occupied(b, loc) == b.base_board[loc] # Vacant

is_occupied_by(b, loc, player) == b.base_board[loc] = player

\* a test that takes a drawn game for a game under way
is_game_over_if_won(b) == b.outcome # NoOutcome /\ b.outcome # Draw

\* a test that takes only a draw for the end of the game
is_game_over_if_drawn(b) == b.outcome = Draw

is_game_over(b) == b.outcome # NoOutcome

(***************************************************************************)
(* IndexSet<Action>: an insertion-ordered set, kept as a sequence without  *)
(* repetitions.  remove() is swap_remove: the last element takes the place *)
(* of the removed one.                                                     *)
(***************************************************************************)
IndexOf(seq, x) == CHOOSE i \in 1 .. Len(seq) : seq[i] = x

Contains(seq, x) == \E i \in 1 .. Len(seq) : seq[i] = x

\* a removal that closes the gap by shifting the later elements down
IndexSetShiftRemove(seq, x) ==
    IF ~Contains(seq, x) THEN seq
    ELSE LET i == IndexOf(seq, x)
             n == Len(seq)
         IN  [j \in 1 .. n - 1 |-> IF j < i THEN seq[j] ELSE seq[j + 1]]

IndexSetRemove(seq, x) ==
    IF ~Contains(seq, x) THEN seq
    ELSE LET i == IndexOf(seq, x)
             n == Len(seq)
         IN  [j \in 1 .. n - 1 |-> IF j = i THEN seq[n] ELSE seq[j]]

\* row-major insertion of every [row_index, col_index]
initialize_legal_actions_indexset(size) ==
    [i \in 1 .. size * size |-> <<(i - 1) \div size, (i - 1) % size>>]

(***************************************************************************)
(* The four check lines of an action: 2k-1 base-board locations each,      *)
(* offsets -(k-1) .. (k-1) around the action.                              *)
(***************************************************************************)
Offsets(b) == [i \in 1 .. 2 * base_board_padding(b) + 1 |-> i - 1 - base_board_padding(b)]

\* a table whose second diagonal repeats the first
CheckLinesOneDiagonal(b, action) ==
    LET row == action[1]
        col == action[2]
        off == Offsets(b)
        n == Len(off)
        horizontal == [i \in 1 .. n |->
            action_to_base_board_location(b, <<row, col + off[i]>>)]
        vertical == [i \in 1 .. n |->
            action_to_base_board_location(b, <<row + off[i], col>>)]
        forward_slash == [i \in 1 .. n |->
            action_to_base_board_location(b, <<row - off[i], col + off[i]>>)]
    IN  <<horizontal, vertical, forward_slash, forward_slash>>

CheckLines(b, action) ==
    LET row == action[1]
        col == action[2]
        off == Offsets(b)
        n == Len(off)
        horizontal == [i \in 1 .. n |->
            action_to_base_board_location(b, <<row, col + off[i]>>)]
        vertical == [i \in 1 .. n |->
            action_to_base_board_location(b, <<row + off[i], col>>)]
        forward_slash == [i \in 1 .. n |->
            action_to_base_board_location(b, <<row - off[i], col + off[i]>>)]
        backward_slash == [i \in 1 .. n |->
            action_to_base_board_location(b, <<row - off[i], col - off[i]>>)]
    IN  <<horizontal, vertical, forward_slash, backward_slash>>

BoardActions(size) == (0 .. size - 1) \X (0 .. size - 1)

initialize_action_to_check_locations(b) ==
    [action \in BoardActions(b.size) |-> CheckLines(b, action)]

\* some addition of the padding in the table's construction wraps around
CheckTableOverflows(size, k) ==
    \E action \in BoardActions(size), o \in (1 - k) .. (k - 1), s \in {-1, 1} :
        \E x \in {action[1] + s * o, action[2] + s * o} :
            UsizeAddOverflows(x, k - 1)

(***************************************************************************)
(* Board::new                                                              *)
(***************************************************************************)
NoBoard ==
    [size |-> 0, n_in_a_row |-> 0, turn |-> Black, base_board |-> <<>>,
     outcome |-> NoOutcome, num_stones_placed |-> 0,
     legal_actions_indexset |-> <<>>, action_to_check_indices |-> <<>>]

NewAsserts(size, n_in_a_row) ==
    /\ size <= 26
    /\ n_in_a_row <= size
    /\ n_in_a_row > 1

BoardNewPanics(size, n_in_a_row, checks) ==
    \/ ~NewAsserts(size, n_in_a_row)
    \/ checks /\ CheckTableOverflows(size, n_in_a_row)

BoardNew(size, n_in_a_row) ==
    LET b0 == [size |-> size, n_in_a_row |-> n_in_a_row, turn |-> Black,
               base_board |-> BaseBoardNew(size + (n_in_a_row - 1) * 2),
               outcome |-> NoOutcome, num_stones_placed |-> 0,
               legal_actions_indexset |-> initialize_legal_actions_indexset(size),
               action_to_check_indices |-> <<>>]
    IN  [b0 EXCEPT !.action_to_check_indices = initialize_action_to_check_locations(b0)]

\* a clone that copies the dimensions and forgets the game
CloneBoardFresh(b) ==
    IF b.size = 0 THEN b ELSE BoardNew(b.size, b.n_in_a_row)

\* impl Clone for Board: every field is copied
CloneBoard(b) ==
    [size |-> b.size, n_in_a_row |-> b.n_in_a_row, base_board |-> b.base_board,
     legal_actions_indexset |-> b.legal_actions_indexset,
     action_to_check_indices |-> b.action_to_check_indices,
     turn |-> b.turn, outcome |-> b.outcome,
     num_stones_placed |-> b.num_stones_placed]

(***************************************************************************)
(* Win detection                                                           *)
(***************************************************************************)
\* a window test that takes any stone for the mover's
locations_contain_stones(b, locations) ==
    \E s \in 1 .. Len(locations) - b.n_in_a_row + 1 :
        \A i \in s .. s + b.n_in_a_row - 1 :
            is_occupied(b, locations[i])

\* some window of n_in_a_row consecutive locations is all the mover's
locations_contain_win(b, locations) ==
    \E s \in 1 .. Len(locations) - b.n_in_a_row + 1 :
        \A i \in s .. s + b.n_in_a_row - 1 :
            is_occupied_by(b, locations[i], b.turn)

\* a check that looks at the stone count before it looks for a line
check_outcome_draw_first(b, action) ==
    LET check_locations == b.action_to_check_indices[action]
    IN  IF b.num_stones_placed = b.size * b.size
        THEN Draw
        ELSE IF \E l \in 1 .. Len(check_locations) :
               locations_contain_win(b, check_locations[l])
        THEN Winner(b.turn)
        ELSE NoOutcome

\* a check that knows no draw
check_outcome_no_draw(b, action) ==
    LET check_locations == b.action_to_check_indices[action]
    IN  IF \E l \in 1 .. Len(check_locations) :
               locations_contain_win(b, check_locations[l])
        THEN Winner(b.turn)
        ELSE NoOutcome

check_outcome(b, action) ==
    LET check_locations == b.action_to_check_indices[action]
    IN  IF \E l \in 1 .. Len(check_locations) :
               locations_contain_win(b, check_locations[l])
        THEN Winner(b.turn)
        ELSE IF b.num_stones_placed = b.size * b.size
        THEN Draw
        ELSE NoOutcome

(***************************************************************************)
(* Board::make_action.  Returns the board as the call leaves it and the    *)
(* call's result; a panic leaves the board as it was at the panic.         *)
(***************************************************************************)
\* a placement that forgets the legal-action set
PlaceStoneKeepLegal(b, action) ==
    [b EXCEPT !.base_board[action_to_base_board_location(b, action)] = b.turn,
              !.num_stones_placed = @ + 1]

PlaceStone(b, action) ==
    [b EXCEPT !.base_board[action_to_base_board_location(b, action)] = b.turn,
              !.legal_actions_indexset = IndexSetRemove(@, action),
              !.num_stones_placed = @ + 1]

\* a turn change that does not look at the outcome
SwitchTurnAlways(b) == [b EXCEPT !.turn = opposite(@)]

\* if self.outcome.is_none() { self.turn = self.turn.opposite(); }
SwitchTurn(b) == IF b.outcome = NoOutcome THEN [b EXCEPT !.turn = opposite(@)] ELSE b

make_action(b, action) ==
    IF is_game_over(b)
    THEN [board |-> b, result |-> "Panic"]
    ELSE IF ~InBaseBoard(b, action_to_base_board_location(b, action))
    THEN [board |-> b, result |-> "Panic"]
    ELSE IF is_occupied(b, action_to_base_board_location(b, action))
    THEN [board |-> b, result |-> "Err"]
    ELSE LET placed == PlaceStone(b, action)
         IN  IF action \notin DOMAIN placed.action_to_check_indices
             THEN [board |-> placed, result |-> "Panic"]
             ELSE LET outcome == check_outcome(placed, action)
                      decided == [placed EXCEPT !.outcome = outcome]
                  IN  [board |-> SwitchTurn(decided), result |-> "Ok"]

(***************************************************************************)
(* Board::reset                                                            *)
(***************************************************************************)
\* a reset that leaves the legal-action set as the game left it
BoardResetKeepLegal(b) ==
    [b EXCEPT !.base_board = [loc \in DOMAIN b.base_board |-> Vacant],
              !.turn = Black,
              !.outcome = NoOutcome,
              !.num_stones_placed = 0]

BoardReset(b) ==
    [b EXCEPT !.base_board = [loc \in DOMAIN b.base_board |-> Vacant],
              !.turn = Black,
              !.outcome = NoOutcome,
              !.num_stones_placed = 0,
              !.legal_actions_indexset = initialize_legal_actions_indexset(b.size)]

(***************************************************************************)
(* Move strings.  A String is a sequence of characters; a character is     *)
(* named by a one-character TLA+ string, or by its code point when it is   *)
(* not ASCII.  String::len and the slices string[1..], string[0..1] count  *)
(* UTF-8 bytes.                                                            *)
(***************************************************************************)
Letters ==
    <<"A", "B", "C", "D", "E", "F", "G", "H", "I", "J", "K", "L", "M",
      "N", "O", "P", "Q", "R", "S", "T", "U", "V", "W", "X", "Y", "Z">>

Digits == <<"0", "1", "2", "3", "4", "5", "6", "7", "8", "9">>

\* characters that take two bytes in UTF-8
TwoByteChars == {"U+00E9"}

Utf8Len(c) == IF c \in TwoByteChars THEN 2 ELSE 1

RECURSIVE ByteLen(_)
ByteLen(string) ==
    IF string = <<>> THEN 0 ELSE Utf8Len(Head(string)) + ByteLen(Tail(string))

\* u32::to_string
RECURSIVE DecimalString(_)
DecimalString(n) ==
    IF n < 10 THEN <<Digits[n + 1]>>
    ELSE Append(DecimalString(n \div 10), Digits[(n % 10) + 1])

\* labels "1".."size" for rows, the first `size` capital letters for columns
RowNames(size) == [i \in 1 .. size |-> DecimalString(i)]

ColNames(size) == [i \in 1 .. size |-> <<Letters[i]>>]

\* a HashMap<String, usize> as its set of <<key, value>> entries; the row
\* labels are enumerated in reverse, so label "size" has index 0
RowNamesHashmap(size) == {<<RowNames(size)[size - i], i>> : i \in 0 .. size - 1}

ColNamesHashmap(size) == {<<ColNames(size)[i + 1], i>> : i \in 0 .. size - 1}

\* HashMap::get: <<value>> when the key is present, <<>> when it is not
HashGet(map, key) ==
    IF \E kv \in map : kv[1] = key
    THEN <<(CHOOSE kv \in map : kv[1] = key)[2]>>
    ELSE <<>>

ParseErr == <<"Err">>
ParseOk(action) == <<"Ok", action>>
ParsePanic == <<"Panic">>

\* a parser that folds the column letter to upper case before the lookup
LowerLetters ==
    <<"a", "b", "c", "d", "e", "f", "g", "h", "i", "j", "k", "l", "m",
      "n", "o", "p", "q", "r", "s", "t", "u", "v", "w", "x", "y", "z">>

ToUpper(c) ==
    IF \E i \in 1 .. 26 : LowerLetters[i] = c
    THEN Letters[CHOOSE i \in 1 .. 26 : LowerLetters[i] = c]
    ELSE c

ColLookupFolded(size, col_string) ==
    HashGet(ColNamesHashmap(size), [i \in 1 .. Len(col_string) |-> ToUpper(col_string[i])])

ColLookup(size, col_string) == HashGet(ColNamesHashmap(size), col_string)

\* a row lookup that numbers the rows from the top
RowLookupFromTop(size, row_string) ==
    HashGet({<<RowNames(size)[i + 1], i>> : i \in 0 .. size - 1}, row_string)

RowLookup(size, row_string) == HashGet(RowNamesHashmap(size), row_string)

parse_string_to_action(b, string) ==
    IF ByteLen(string) < 2 THEN ParseErr
    \* string[1..] panics when byte 1 is not a character boundary
    ELSE IF Utf8Len(Head(string)) > 1 THEN ParsePanic
    ELSE LET row_string == Tail(string)
             col_string == <<Head(string)>>
             row_index == RowLookup(b.size, row_string)
             col_index == ColLookup(b.size, col_string)
         IN  IF row_index = <<>> \/ col_index = <<>>
             THEN ParseErr
             ELSE ParseOk(<<row_index[1], col_index[1]>>)

\* the label legal_moves_as_strings gives an action
MoveLabel(b, action) ==
    ColNames(b.size)[action[2] + 1] \o RowNames(b.size)[action[1] + 1]

legal_moves_as_strings(b) ==
    {MoveLabel(b, b.legal_actions_indexset[i]) : i \in 1 .. Len(b.legal_actions_indexset)}

(***************************************************************************)
(* The board driven by a caller: construction, moves, resets.              *)
(***************************************************************************)
Built == board.size > 0
Running == Built /\ result # "Panic"

\* sizes and win lengths offered to Board::new: the valid ones up to MaxSize,
\* and one of each kind of invalid pair
NewInputs ==
    ((2 .. MaxSize) \X (1 .. MaxSize + 1)) \cup {<<27, 3>>}

\* indices offered to make_action: every in-board index and the first ones
\* beyond the board
ActionInputs == (0 .. MaxSize) \X (0 .. MaxSize)

\* the variables a specification does not use
ParseIdle == input = <<>> /\ parsed = <<>>

SelfPlayIdle == board_vecs = <<>> /\ game_json = <<>>

SearchIdle ==
    /\ script = <<>> /\ pos = 1 /\ pc = "idle"
    /\ exploratory_play = FALSE /\ n_iterations = 0
    /\ mcts_board = NoBoard /\ nodes = <<>> /\ loop_i = 0
    /\ scratch = NoBoard /\ node = <<>> /\ parents_pointers = <<>>
    /\ value = 0 /\ best_action = <<>>

Init ==
    /\ overflow_checks \in BOOLEAN
    /\ board = NoBoard
    /\ result = "None"
    /\ ParseIdle
    /\ SearchIdle
    /\ SelfPlayIdle

New(size, n_in_a_row) ==
    /\ ~Built /\ result = "None"
    /\ IF BoardNewPanics(size, n_in_a_row, overflow_checks)
       THEN board' = board /\ result' = "Panic"
       ELSE board' = BoardNew(size, n_in_a_row) /\ result' = "Ok"
    /\ UNCHANGED <<overflow_checks, pvars, svars, jvars>>

MakeAction(action) ==
    /\ Running
    /\ LET r == make_action(board, action)
       IN  board' = r.board /\ result' = r.result
    /\ UNCHANGED <<overflow_checks, pvars, svars, jvars>>

Reset ==
    /\ Running
    /\ board' = BoardReset(board)
    /\ result' = "Unit"
    /\ UNCHANGED <<overflow_checks, pvars, svars, jvars>>

Next ==
    \/ \E in \in NewInputs : New(in[1], in[2])
    \/ \E action \in ActionInputs : MakeAction(action)
    \/ Reset

Spec == Init /\ [][Next]_vars

(***************************************************************************)
(* Claims about the board                                                  *)
(***************************************************************************)
LegalSet(b) == {b.legal_actions_indexset[i] : i \in 1 .. Len(b.legal_actions_indexset)}

VacantSquares(b) ==
    {a \in BoardActions(b.size) : ~is_occupied(b, action_to_base_board_location(b, a))}

\* C1: after any sequence of make_action calls from new or reset, the legal
\* set holds size*size - num_stones_placed actions, without repetition, and
\* is exactly the set of vacant in-board squares.
C1_LegalIsVacant ==
    Running =>
        /\ Len(board.legal_actions_indexset)
               = board.size * board.size - board.num_stones_placed
        /\ Cardinality(LegalSet(board)) = Len(board.legal_actions_indexset)
        /\ LegalSet(board) = VacantSquares(board)

C1_Witness ==
    /\ Running /\ result = "Ok"
    /\ board.size = 3 /\ board.num_stones_placed = 4
    /\ is_occupied(board, action_to_base_board_location(board, <<1, 1>>))
    /\ <<1, 1>> \notin LegalSet(board)

\* an independent scan of the whole board: n_in_a_row consecutive in-board
\* squares of player p along a row, a column or a diagonal
Square(b, r, c) == b.base_board[<<r + b.n_in_a_row - 1, c + b.n_in_a_row - 1>>]

FullScanWin(b, p) ==
    \E r \in 0 .. b.size - 1, c \in 0 .. b.size - 1,
       d \in {<<0, 1>>, <<1, 0>>, <<1, 1>>, <<1, -1>>} :
        \A i \in 0 .. b.n_in_a_row - 1 :
            /\ r + i * d[1] \in 0 .. b.size - 1
            /\ c + i * d[2] \in 0 .. b.size - 1
            /\ Square(b, r + i * d[1], c + i * d[2]) = p

\* C2: in every reachable position the outcome is Winner(p) exactly when the
\* full scan finds a line of p, and there is no winner exactly when the full
\* scan finds no line.
C2_IncrementalAgreesWithFullScan ==
    Running =>
        \A p \in Player : (board.outcome = Winner(p)) <=> FullScanWin(board, p)

\* a win on the second diagonal (top-left to bottom-right) of a 3x3 board
C2_Witness ==
    /\ Running
    /\ board.size = 3 /\ board.n_in_a_row = 3
    /\ board.outcome = Winner(White)
    /\ \A i \in 0 .. 2 : Square(board, i, i) = White

InBoard(b, action) == action \in BoardActions(b.size)

\* C11: make_action on an occupied in-board square of a game that is not
\* over returns the error value and leaves every field of the board as it
\* was before the call.
C11_OccupiedIsErrAndUnmodified ==
    [][\A action \in ActionInputs :
        (/\ Running /\ ~is_game_over(board)
         /\ InBoard(board, action)
         /\ Square(board, action[1], action[2]) # Vacant
         /\ MakeAction(action))
            => (result' = "Err" /\ board' = board)]_vars

\* a rejected move in a game under way: Black is to move, two stones lie
C11_Witness ==
    /\ Running /\ result = "Err"
    /\ board.size = 3 /\ board.num_stones_placed = 2
    /\ board.turn = Black /\ board.outcome = NoOutcome
    /\ Len(board.legal_actions_indexset) = 7

\* C12: make_action with a row or column index >= size, in a game that is
\* not over, returns the error value and leaves the board as it was.
C12_OutOfRangeIsErr ==
    [][\A action \in ActionInputs :
        (/\ Running /\ ~is_game_over(board)
         /\ ~InBoard(board, action)
         /\ MakeAction(action))
            => (result' = "Err" /\ board' = board)]_vars

ValidPair(size, n_in_a_row) == 2 <= n_in_a_row /\ n_in_a_row <= size /\ size <= 26

\* the board is the empty board of this size and win length
EmptyBoard(b, size, n_in_a_row) ==
    /\ b.size = size /\ b.n_in_a_row = n_in_a_row
    /\ b.turn = Black /\ b.outcome = NoOutcome /\ b.num_stones_placed = 0
    /\ \A loc \in DOMAIN b.base_board : b.base_board[loc] = Vacant
    /\ Len(b.legal_actions_indexset) = size * size
    /\ LegalSet(b) = BoardActions(size)

\* C13: Board::new(size, k) aborts without a board for every pair outside
\* 2 <= k <= size <= 26 and yields the empty board for every pair inside.
C13_NewSucceedsIffValid ==
    [][\A in \in NewInputs :
        New(in[1], in[2]) =>
            IF ValidPair(in[1], in[2])
            THEN result' = "Ok" /\ EmptyBoard(board', in[1], in[2])
            ELSE result' = "Panic" /\ board' = NoBoard]_vars

\* C18: reset() leaves the board equal to a freshly constructed
\* Board::new(size, n_in_a_row): all squares vacant, Black to move, no
\* outcome, zero stones, every action legal in row-major order, and the
\* check-line table as it was.
C18_ResetEqualsNew ==
    [][Reset =>
        /\ board' = BoardNew(board.size, board.n_in_a_row)
        /\ EmptyBoard(board', board.size, board.n_in_a_row)
        /\ \A i \in 1 .. board.size * board.size :
               board'.legal_actions_indexset[i]
                   = <<(i - 1) \div board.size, (i - 1) % board.size>>
        /\ board'.action_to_check_indices = board.action_to_check_indices]_vars

\* reset() has just returned on a 3x3 board
C18_Witness ==
    /\ result = "Unit"
    /\ board.size = 3 /\ board.n_in_a_row = 2
    /\ board = BoardNew(3, 2)

\* a make_action call that placed a stone
Removal ==
    /\ Running /\ result' = "Ok"
    /\ board'.num_stones_placed = board.num_stones_placed + 1
    /\ \E action \in ActionInputs : MakeAction(action)

\* C19 as claimed: after a removal the remaining legal actions keep the
\* relative order they had before it.
C19_OrderPreserved ==
    [][Removal =>
        \A x, y \in LegalSet(board') :
            IndexOf(board.legal_actions_indexset, x) < IndexOf(board.legal_actions_indexset, y)
                => IndexOf(board'.legal_actions_indexset, x)
                       < IndexOf(board'.legal_actions_indexset, y)]_vars

\* C19 as amended: a removal moves the last legal action into the slot of
\* the removed one and leaves every other action at its index.
C19_LastTakesTheSlot ==
    [][Removal =>
        LET old == board.legal_actions_indexset
            new == board'.legal_actions_indexset
            gone == CHOOSE i \in 1 .. Len(old) : old[i] \notin LegalSet(board')
        IN  /\ Len(new) = Len(old) - 1
            /\ \A j \in 1 .. Len(new) :
                   new[j] = IF j = gone THEN old[Len(old)] ELSE old[j]]_vars

\* the first stone went on the first square: the last action now leads
C19_Witness ==
    /\ Running /\ board.size = 3 /\ board.num_stones_placed = 1
    /\ board.legal_actions_indexset[1] = <<2, 2>>
    /\ board.legal_actions_indexset[2] = <<0, 1>>

\* C22: after every successful make_action either the outcome is none and
\* the turn is the opposite of the mover, or the outcome is set and the turn
\* still is the mover; a winner is always the player who placed the last
\* stone.
C22_TurnFlipsIffUndecided ==
    [][Removal =>
        LET mover == board.turn
        IN  /\ \/ board'.outcome = NoOutcome /\ board'.turn # mover
               \/ board'.outcome # NoOutcome /\ board'.turn = mover
            /\ \A p \in Player : board'.outcome = Winner(p) => p = mover
            /\ \E a \in BoardActions(board.size) :
                /\ Square(board, a[1], a[2]) = Vacant
                /\ Square(board', a[1], a[2]) = mover]_vars

\* White has just won: the turn stayed with White
C22_Witness ==
    /\ Running /\ result = "Ok"
    /\ board.outcome = Winner(White) /\ board.turn = White
    /\ board.size = 3 /\ board.n_in_a_row = 3

\* C23: a stone makes the outcome Draw exactly when it completes no line of
\* the mover and fills the board; a stone that fills the board and completes
\* a line makes the mover the winner; a drawn board has no vacant square.
C23_DrawIffFullAndNoLine ==
    [][Removal =>
        LET mover == board.turn
            full == board'.num_stones_placed = board.size * board.size
        IN  /\ board'.outcome = Draw <=> (full /\ ~FullScanWin(board', mover))
            /\ (full /\ FullScanWin(board', mover)) => board'.outcome = Winner(mover)
            /\ board'.outcome = Draw => VacantSquares(board') = {}]_vars

\* the ninth stone both filled the board and completed a line
C23_Witness ==
    /\ Running /\ result = "Ok"
    /\ board.size = 3 /\ board.num_stones_placed = 9
    /\ VacantSquares(board) = {}
    /\ board.outcome = Winner(Black)

\* the check lines stored for an action: four lines of 2k-1 locations, all
\* of them inside the padded grid
CheckLinesInsideGrid(b, action) ==
    LET lines == b.action_to_check_indices[action]
    IN  /\ Len(lines) = 4
        /\ \A l \in 1 .. 4 :
            /\ Len(lines[l]) = 2 * b.n_in_a_row - 1
            /\ \A i \in 1 .. Len(lines[l]) : InBaseBoard(b, lines[l][i])

\* C27: for every valid (size, k) the construction completes, and every
\* location of the four check lines of every action lies inside the padded
\* grid, also where the signed offset takes the index below zero before the
\* padding is added.
C27_CheckLinesBuiltInsideGrid ==
    [][\A in \in NewInputs :
        (~Built /\ ValidPair(in[1], in[2]) /\ New(in[1], in[2])) =>
            /\ result' = "Ok" /\ board'.size = in[1]
            /\ DOMAIN board'.action_to_check_indices = BoardActions(in[1])
            /\ \A action \in BoardActions(in[1]) : CheckLinesInsideGrid(board', action)]_vars

\* C30: make_action on a board whose game is over panics and leaves every
\* field of the board as it was, for every action.
C30_GameOverPanicsUnmodified ==
    [][\A action \in ActionInputs :
        (/\ Running /\ board.outcome # NoOutcome
         /\ MakeAction(action))
            => (result' = "Panic" /\ board' = board)]_vars

\* a move was attempted on a drawn board
C30_Witness ==
    /\ Built /\ result = "Panic"
    /\ board.outcome = Draw
    /\ board.num_stones_placed = board.size * board.size
    /\ VacantSquares(board) = {}

(***************************************************************************)
(* The move-entry loop of play_game: a line is read and parsed.  Boards    *)
(* exist only in a build without overflow checks.                          *)
(***************************************************************************)
ParseSizes == (2 .. MaxSize) \cup {10}

ParseAlphabet == {"A", "B", "C", "D", "a", "b", "0", "1", "2", "3", "4", " ", "U+00E9"}

RECURSIVE StringsOfLen(_)
StringsOfLen(n) ==
    IF n = 0 THEN {<<>>}
    ELSE {Append(s, c) : s \in StringsOfLen(n - 1), c \in ParseAlphabet}

ParseStrings == UNION {StringsOfLen(n) : n \in 0 .. MaxStringLen}

InitParse ==
    /\ overflow_checks = FALSE
    /\ board \in {BoardNew(size, 2) : size \in ParseSizes}
    /\ result = "Ok"
    /\ ParseIdle
    /\ SearchIdle
    /\ SelfPlayIdle

ReadAndParse ==
    /\ parsed = <<>>
    /\ \E string \in ParseStrings :
        /\ input' = string
        /\ parsed' = parse_string_to_action(board, string)
    /\ UNCHANGED <<bvars, svars, jvars>>

NextPrompt ==
    /\ parsed # <<>> /\ parsed # ParsePanic
    /\ input' = <<>>
    /\ parsed' = <<>>
    /\ UNCHANGED <<bvars, svars, jvars>>

NextParse ==
    \/ ReadAndParse
    \/ NextPrompt

SpecParse == InitParse /\ [][NextParse]_vars

(***************************************************************************)
(* Claims about move strings                                               *)
(***************************************************************************)
\* <column letter of this board><row number of this board>
ValidMoveStrings(size) ==
    {<<Letters[c]>> \o DecimalString(n) : c \in 1 .. size, n \in 1 .. size}

WasParsed == parsed # <<>>

\* C8: formatting the action parsed from a valid move string with the
\* labelling of legal_moves_as_strings gives the string back.
C8_FormatOfParseIsIdentity ==
    (WasParsed /\ input \in ValidMoveStrings(board.size)) =>
        /\ parsed[1] = "Ok"
        /\ MoveLabel(board, parsed[2]) = input

\* a string that is too short, or whose first character is no column of the
\* board, or whose remainder is no row number of the board
Malformed(size, string) ==
    \/ Len(string) < 2
    \/ <<Head(string)>> \notin {<<Letters[c]>> : c \in 1 .. size}
    \/ Tail(string) \notin {DecimalString(n) : n \in 1 .. size}

\* C9: parsing a malformed string returns the error value; it neither
\* returns a coordinate nor aborts.
C9_MalformedIsErr ==
    (WasParsed /\ Malformed(board.size, input)) => parsed = ParseErr

\* C10 as claimed: the lower-case and the upper-case spelling of a move
\* string parse to the same Action.
C10_CaseInsensitive ==
    WasParsed =>
        parsed = parse_string_to_action(board, [i \in 1 .. Len(input) |-> ToUpper(input[i])])

\* C10 as amended: parsing is case-sensitive; the upper-case spelling of a
\* valid move parses to <<size - row number, column index>> and the
\* lower-case spelling of the same move is rejected with the error value.
C10_CaseSensitive ==
    WasParsed =>
        \A c \in 1 .. board.size, n \in 1 .. board.size :
            /\ input = <<Letters[c]>> \o DecimalString(n)
                  => parsed = ParseOk(<<board.size - n, c - 1>>)
            /\ input = <<LowerLetters[c]>> \o DecimalString(n)
                  => parsed = ParseErr

C10_Witness ==
    /\ board.size = 3
    /\ input = <<"b", "2">>
    /\ parsed = ParseErr

(***************************************************************************)
(* mcts.rs.  f32 quantities (values, priors, scores) are kept in           *)
(* thousandths: the integer v stands for v / Milli.  Products are rescaled *)
(* after each multiplication and quotients are truncated, so a score is    *)
(* the code's score up to rounding.                                        *)
(***************************************************************************)
Milli == 1000
C_BASE == 19652
C_INIT == 1250
DIRICHLET_EPSILON == 250
\* log10(e) in thousandths: log10(1 + x) is x * log10(e) up to x^2 / 2, and
\* x = (1 + parent_visit_count) / C_BASE is below 10^-3 here
LOG10_E == 434

MaxIterations == 3    \* engines run 0..MaxIterations iterations

FMul(a, b) == (a * b) \div Milli

TruncDiv(a, n) == IF a >= 0 THEN a \div n ELSE -((-a) \div n)

\* the largest r in lo..hi with r * r <= n
RECURSIVE ISqrtIn(_, _, _)
ISqrtIn(lo, hi, n) ==
    IF lo >= hi THEN lo
    ELSE LET mid == (lo + hi + 1) \div 2
         IN  IF mid * mid <= n THEN ISqrtIn(mid, hi, n) ELSE ISqrtIn(lo, mid - 1, n)

\* f32::sqrt(n as f32), in thousandths
SqrtMilli(n) == ISqrtIn(0, n * Milli, n * Milli * Milli)

\* Node::new; `action` is <<>> for None and <<a>> for Some(a); `children`
\* lists the paths of the owned children
NodeNew(action, turn, prior) ==
    [action |-> action, turn |-> turn, prior |-> prior, children |-> <<>>,
     total_value |-> 0, visit_count |-> 0]

NodeValue(n) ==
    IF n.visit_count = 0 THEN 0 ELSE TruncDiv(n.total_value, n.visit_count)

ucb(n, parent_visit_count) ==
    LET Q_s == NodeValue(n)
        C_s == (LOG10_E * (1 + parent_visit_count)) \div C_BASE + C_INIT
        U_s == FMul(FMul(C_s, n.prior), SqrtMilli(parent_visit_count))
                   \div (1 + n.visit_count)
    IN  Q_s + U_s

\* an update that books the value under the node's own player
updateForMover(n, v) ==
    [n EXCEPT !.total_value = IF n.turn = Black THEN @ + v ELSE @ - v,
              !.visit_count = @ + 1]

\* an update that adds the value whoever is to move
updateUnsigned(n, v) ==
    [n EXCEPT !.total_value = @ + v,
              !.visit_count = @ + 1]

\* Node::update: v is from Black's perspective
update(n, v) ==
    [n EXCEPT !.total_value = IF n.turn = White THEN @ + v ELSE @ - v,
              !.visit_count = @ + 1]

is_leaf(n) == n.children = <<>>

\* Node::get_best_child: the first child whose score is the highest
get_best_child(tree, p) ==
    LET ch == tree[p].children
        score(k) == ucb(tree[ch[k]], tree[p].visit_count)
    IN  ch[CHOOSE k \in 1 .. Len(ch) :
                \A j \in 1 .. Len(ch) :
                    /\ j < k => score(j) < score(k)
                    /\ j > k => score(j) <= score(k)]

\* the value of a finished game, from Black's perspective
TerminalValue(b) ==
    IF b.outcome = Winner(Black) THEN Milli
    ELSE IF b.outcome = Winner(White) THEN -Milli
    ELSE 0

\* an expansion that makes a child of every square of the board
ExpandActionsAllSquares(b) == initialize_legal_actions_indexset(b.size)

\* the actions expand makes children of
ExpandActions(b) == b.legal_actions_indexset

\* expand, for a position that is not over: one child per action, pushed
\* after the children the node already has
ExpandChildren(tree, p, b, policies) ==
    LET actions == ExpandActions(b)
        base == Len(tree[p].children)
        new == [k \in 1 .. Len(actions) |-> Append(p, base + k)]
    IN  [q \in DOMAIN tree \cup {new[k] : k \in 1 .. Len(new)} |->
            IF q = p THEN [tree[p] EXCEPT !.children = @ \o new]
            ELSE IF q \in DOMAIN tree THEN tree[q]
            ELSE NodeNew(<<actions[q[Len(q)] - base]>>, opposite(tree[p].turn),
                         policies[action_to_flat_index(b, actions[q[Len(q)] - base]) + 1])]

\* inject_exploration_noise with the Dirichlet sample `samples`
inject_exploration_noise(tree, samples) ==
    LET ch == tree[<<>>].children
    IN  IF Len(ch) < 2 THEN tree
        ELSE [q \in DOMAIN tree |->
                IF \E k \in 1 .. Len(ch) : ch[k] = q
                THEN [tree[q] EXCEPT !.prior =
                        FMul(Milli - DIRICHLET_EPSILON, @)
                        + FMul(DIRICHLET_EPSILON, samples[q[Len(q)]])]
                ELSE tree[q]]

(***************************************************************************)
(* What the collaborators may hand back: the oracle's softmax policy and   *)
(* value, the Dirichlet sample.  A distribution over n entries is uniform  *)
(* or has half of its mass on one entry.                                   *)
(***************************************************************************)
UniformDist(n) == [k \in 1 .. n |-> Milli \div n]

PeakedDist(n, j) ==
    [k \in 1 .. n |->
        IF k = j THEN Milli - (n - 1) * (Milli \div (2 * n)) ELSE Milli \div (2 * n)]

OraclePolicies(n) == {UniformDist(n), PeakedDist(n, n)}

OracleValues == {-Milli, 0, Milli}

DirichletSamples(n) == {UniformDist(n), PeakedDist(n, 1)}

(***************************************************************************)
(* The test drivers of mcts.rs: a 3x3 board, a script of move strings      *)
(* replayed with parse_string_to_action and make_action, then one          *)
(* MCTS::new and one get_best_action.                                      *)
(***************************************************************************)
BlackWinsScript ==
    <<<<"B", "2">>, <<"A", "2">>, <<"C", "3">>, <<"A", "1">>, <<"A", "3">>, <<"B", "3">>>>

WhiteWinsScript ==
    <<<<"A", "1">>, <<"B", "1">>, <<"A", "2">>, <<"B", "2">>, <<"C", "1">>>>

BasicsScript == Append(BlackWinsScript, <<"C", "1">>)

\* a game played to a full board without a line
DrawScript ==
    <<<<"A", "3">>, <<"B", "3">>, <<"C", "3">>, <<"B", "2">>, <<"A", "2">>,
      <<"C", "2">>, <<"B", "1">>, <<"A", "1">>, <<"C", "1">>>>

\* benchmark searches the empty board
Scripts == {BlackWinsScript, WhiteWinsScript, BasicsScript, DrawScript, <<>>}

InitSearch ==
    /\ overflow_checks = FALSE
    /\ board = BoardNew(3, 3)
    /\ result = "Ok"
    /\ ParseIdle
    /\ script \in Scripts /\ pos = 1 /\ pc = "replay"
    /\ exploratory_play \in BOOLEAN
    /\ n_iterations \in 0 .. MaxIterations
    /\ mcts_board = NoBoard /\ nodes = <<>> /\ loop_i = 0
    /\ scratch = NoBoard /\ node = <<>> /\ parents_pointers = <<>>
    /\ value = 0 /\ best_action = <<>>
    /\ SelfPlayIdle

\* parse(..).unwrap(); board.make_action(action).ok()
ReplayMove ==
    /\ pc = "replay" /\ pos <= Len(script)
    /\ input' = script[pos]
    /\ parsed' = parse_string_to_action(board, script[pos])
    /\ pos' = pos + 1
    /\ IF parsed'[1] # "Ok"
       THEN pc' = "panic" /\ UNCHANGED <<board, result>>
       ELSE LET r == make_action(board, parsed'[2])
            IN  /\ board' = r.board
                /\ result' = r.result
                /\ pc' = IF r.result = "Panic" THEN "panic" ELSE "replay"
    /\ UNCHANGED <<jvars, overflow_checks, script, exploratory_play, n_iterations, mcts_board,
                   nodes, loop_i, scratch, node, parents_pointers, value, best_action>>

\* MCTS::new
MCTSNew ==
    /\ pc = "replay" /\ pos > Len(script)
    /\ nodes' = [q \in {<<>>} |-> NodeNew(<<>>, board.turn, 0)]
    /\ mcts_board' = CloneBoard(board)
    /\ pc' = "expand_root"
    /\ UNCHANGED <<jvars, bvars, pvars, script, pos, exploratory_play, n_iterations, loop_i,
                   scratch, node, parents_pointers, value, best_action>>

\* get_best_action: let _ = expand(&mut self.root, &mut self.board.clone(), &model)
ExpandRoot ==
    /\ pc = "expand_root"
    /\ IF is_game_over(mcts_board)
       THEN nodes' = nodes
       ELSE \E policies \in OraclePolicies(mcts_board.size * mcts_board.size) :
                nodes' = ExpandChildren(nodes, <<>>, CloneBoard(mcts_board), policies)
    /\ pc' = "inject_noise"
    /\ UNCHANGED <<jvars, bvars, pvars, script, pos, exploratory_play, n_iterations, mcts_board,
                   loop_i, scratch, node, parents_pointers, value, best_action>>

\* get_best_action: inject_exploration_noise(&mut self.root)
InjectNoise ==
    /\ pc = "inject_noise"
    /\ \E samples \in DirichletSamples(Len(nodes[<<>>].children)) :
           nodes' = inject_exploration_noise(nodes, samples)
    /\ loop_i' = 0
    /\ pc' = "loop"
    /\ UNCHANGED <<jvars, bvars, pvars, script, pos, exploratory_play, n_iterations, mcts_board,
                   scratch, node, parents_pointers, value, best_action>>

\* get_best_action: for i in 0..self.n_iterations { let mut board = self.board.clone(); .. }
\* and the first lines of iteration
LoopNext ==
    /\ pc = "loop"
    /\ IF loop_i < n_iterations
       THEN /\ scratch' = CloneBoard(mcts_board)
            /\ node' = <<>>
            /\ parents_pointers' = <<<<>>>>
            /\ pc' = "select"
       ELSE /\ pc' = "choose"
            /\ UNCHANGED <<scratch, node, parents_pointers>>
    /\ UNCHANGED <<jvars, bvars, pvars, script, pos, exploratory_play, n_iterations, mcts_board,
                   nodes, loop_i, value, best_action>>

\* iteration: one turn of the selection loop
SelectChild ==
    /\ pc = "select" /\ ~is_leaf(nodes[node])
    /\ LET best == get_best_child(nodes, node)
           r == make_action(scratch, nodes[best].action[1])
       IN  /\ node' = best
           /\ scratch' = r.board
           /\ parents_pointers' = Append(parents_pointers, best)
           /\ pc' = IF r.result = "Panic" THEN "panic" ELSE "select"
    /\ UNCHANGED <<jvars, bvars, pvars, script, pos, exploratory_play, n_iterations, mcts_board,
                   nodes, loop_i, value, best_action>>

\* iteration: let value = expand(&mut node, board, &model)
ExpandLeaf ==
    /\ pc = "select" /\ is_leaf(nodes[node])
    /\ IF is_game_over(scratch)
       THEN /\ value' = TerminalValue(scratch)
            /\ nodes' = nodes
       ELSE \E policies \in OraclePolicies(scratch.size * scratch.size), v \in OracleValues :
                /\ value' = v
                /\ nodes' = ExpandChildren(nodes, node, scratch, policies)
    /\ pc' = "backprop"
    /\ UNCHANGED <<jvars, bvars, pvars, script, pos, exploratory_play, n_iterations, mcts_board,
                   loop_i, scratch, node, parents_pointers, best_action>>

\* a backpropagation that stops below the root
OnPathBelowRoot(q) == \E k \in 2 .. Len(parents_pointers) : parents_pointers[k] = q

\* the nodes backpropagation updates
OnPath(q) == \E k \in 1 .. Len(parents_pointers) : parents_pointers[k] = q

\* iteration: the backpropagation loop
Backpropagate ==
    /\ pc = "backprop"
    /\ nodes' = [q \in DOMAIN nodes |-> IF OnPath(q) THEN update(nodes[q], value) ELSE nodes[q]]
    /\ loop_i' = loop_i + 1
    /\ pc' = "loop"
    /\ UNCHANGED <<jvars, bvars, pvars, script, pos, exploratory_play, n_iterations, mcts_board,
                   scratch, node, parents_pointers, value, best_action>>

RootChildren == nodes[<<>>].children

\* a sampling that gives every root child a chance
SampleFromAllChildren == 1 .. Len(RootChildren)

\* sample_from_weights over visit_count / root.visit_count: the indices it may
\* return; none when WeightedIndex::new fails (no weight, a NaN or infinite
\* weight from a division by zero, or no positive weight)
SampleFromWeights ==
    IF RootChildren = <<>> \/ nodes[<<>>].visit_count = 0 THEN {}
    ELSE {k \in 1 .. Len(RootChildren) : nodes[RootChildren[k]].visit_count > 0}

\* a choice that keeps the last child with the highest visit count
MostVisitedLast ==
    CHOOSE k \in 1 .. Len(RootChildren) :
        \A j \in 1 .. Len(RootChildren) :
            /\ j < k => nodes[RootChildren[j]].visit_count <= nodes[RootChildren[k]].visit_count
            /\ j > k => nodes[RootChildren[j]].visit_count < nodes[RootChildren[k]].visit_count

\* the deterministic choice: the first child with the highest visit count
MostVisited ==
    CHOOSE k \in 1 .. Len(RootChildren) :
        \A j \in 1 .. Len(RootChildren) :
            /\ j < k => nodes[RootChildren[j]].visit_count < nodes[RootChildren[k]].visit_count
            /\ j > k => nodes[RootChildren[j]].visit_count <= nodes[RootChildren[k]].visit_count

\* a flat policy written at column * size + row
get_flat_policy_transposed ==
    [i \in 1 .. mcts_board.size * mcts_board.size |->
        IF \E k \in 1 .. Len(RootChildren) :
               LET a == nodes[RootChildren[k]].action[1]
               IN  a[2] * mcts_board.size + a[1] + 1 = i
        THEN LET k == CHOOSE k \in 1 .. Len(RootChildren) :
                        LET a == nodes[RootChildren[k]].action[1]
                        IN  a[2] * mcts_board.size + a[1] + 1 = i
             IN  (nodes[RootChildren[k]].visit_count * Milli) \div n_iterations
        ELSE 0]

\* MCTS::get_flat_policy, for n_iterations >= 1: zero everywhere, then
\* visit_count / n_iterations at the flat index of every root child's action
get_flat_policy ==
    [i \in 1 .. mcts_board.size * mcts_board.size |->
        IF \E k \in 1 .. Len(RootChildren) :
               action_to_flat_index(mcts_board, nodes[RootChildren[k]].action[1]) + 1 = i
        THEN LET k == CHOOSE k \in 1 .. Len(RootChildren) :
                        action_to_flat_index(mcts_board, nodes[RootChildren[k]].action[1]) + 1 = i
             IN  (nodes[RootChildren[k]].visit_count * Milli) \div n_iterations
        ELSE 0]

\* get_best_action: the final choice
ChooseAction ==
    /\ pc = "choose"
    /\ IF exploratory_play
       THEN IF SampleFromWeights = {}
            THEN pc' = "panic" /\ UNCHANGED best_action
            ELSE \E k \in SampleFromWeights :
                    /\ best_action' = nodes[RootChildren[k]].action[1]
                    /\ pc' = "done"
       ELSE IF RootChildren = <<>>
            THEN pc' = "panic" /\ UNCHANGED best_action
            ELSE /\ best_action' = nodes[RootChildren[MostVisited]].action[1]
                 /\ pc' = "done"
    /\ UNCHANGED <<jvars, bvars, pvars, script, pos, exploratory_play, n_iterations, mcts_board,
                   nodes, loop_i, scratch, node, parents_pointers, value>>

NextSearch ==
    \/ ReplayMove
    \/ MCTSNew
    \/ ExpandRoot
    \/ InjectNoise
    \/ LoopNext
    \/ SelectChild
    \/ ExpandLeaf
    \/ Backpropagate
    \/ ChooseAction

SpecSearch == InitSearch /\ [][NextSearch]_vars

(***************************************************************************)
(* Claims about the replayed scripts and the search                        *)
(***************************************************************************)
Replayed(sc) == script = sc /\ pos > Len(sc)

\* C3 as claimed: after B2, A2, C3, A1, A3, B3 the outcome is Winner(Black).
C3_BlackHasWon ==
    Replayed(BlackWinsScript) => board.outcome = Winner(Black)

\* C3 as amended: after B2, A2, C3, A1, A3, B3 all six stones are placed and
\* the game is not over; it is Black's move; A1 is White's, so A1-B2-C3 is
\* no Black line; Black wins with the next stone on C1 (A3-B2-C1).
C3_BlackToMoveAndWin ==
    /\ (script = BlackWinsScript /\ pos <= Len(script)) => pc = "replay"
    /\ Replayed(BlackWinsScript) =>
        /\ result = "Ok"
        /\ board.num_stones_placed = 6
        /\ board.outcome = NoOutcome
        /\ board.turn = Black
        /\ Square(board, 2, 0) = White
        /\ Square(board, 1, 1) = Black /\ Square(board, 0, 2) = Black
        /\ Square(board, 0, 0) = Black
        /\ make_action(board, <<2, 2>>).board.outcome = Winner(Black)

C3_Witness ==
    /\ Replayed(BlackWinsScript)
    /\ input = <<"B", "3">> /\ parsed = ParseOk(<<0, 1>>)
    /\ Square(board, 0, 1) = White

\* C4 as claimed: after A1, B1, A2, B2, C1 the outcome is Winner(White).
C4_WhiteHasWon ==
    Replayed(WhiteWinsScript) => board.outcome = Winner(White)

\* C4 as amended: after A1, B1, A2, B2, C1 all five stones are placed and the
\* game is not over; it is White's move, and White wins with the next stone
\* on B3 (B1-B2-B3).
C4_WhiteToMoveAndWin ==
    /\ (script = WhiteWinsScript /\ pos <= Len(script)) => pc = "replay"
    /\ Replayed(WhiteWinsScript) =>
        /\ result = "Ok"
        /\ board.num_stones_placed = 5
        /\ board.outcome = NoOutcome
        /\ board.turn = White
        /\ Square(board, 2, 1) = White /\ Square(board, 1, 1) = White
        /\ make_action(board, <<0, 1>>).board.outcome = Winner(White)

C4_Witness ==
    /\ Replayed(WhiteWinsScript)
    /\ input = <<"C", "1">> /\ parsed = ParseOk(<<2, 2>>)
    /\ Square(board, 2, 2) = Black

\* C5: with at least one iteration on a position that is not over, the
\* action get_best_action returns is a legal action of the board as it was
\* before the call.
C5_BestActionIsLegal ==
    (pc = "done" /\ n_iterations >= 1 /\ ~is_game_over(board)) =>
        best_action \in LegalSet(board)

C5_Witness ==
    /\ pc = "done" /\ exploratory_play /\ n_iterations = MaxIterations
    /\ script = BlackWinsScript
    /\ best_action = <<2, 2>>

RECURSIVE SumVisits(_, _)
SumVisits(tree, paths) ==
    IF paths = <<>> THEN 0
    ELSE tree[Head(paths)].visit_count + SumVisits(tree, Tail(paths))

ChildVisits(q) == SumVisits(nodes, nodes[q].children)

\* C6 as claimed: between an evaluation and its backpropagation, every node
\* with children has visit count = sum of its children's visit counts + 1.
C6_ChildrenPlusOne ==
    pc = "backprop" =>
        \A q \in DOMAIN nodes :
            ~is_leaf(nodes[q]) => ChildVisits(q) + 1 = nodes[q].visit_count

\* C6 as amended: between an evaluation and its backpropagation, the root's
\* visit count equals the sum of its children's visit counts; the node
\* expanded by this evaluation has visit count 0 and unvisited children;
\* every other node with children has visit count = children's sum + 1.
C6_VisitBookkeeping ==
    pc = "backprop" =>
        \A q \in DOMAIN nodes :
            ~is_leaf(nodes[q]) =>
                IF q = <<>> THEN ChildVisits(q) = nodes[q].visit_count
                ELSE IF q = node
                THEN nodes[q].visit_count = 0 /\ ChildVisits(q) = 0
                ELSE ChildVisits(q) + 1 = nodes[q].visit_count

\* an inner node is revisited: it was expanded earlier and one of its
\* children has been visited since
C6_Witness ==
    /\ pc = "backprop"
    /\ \E q \in DOMAIN nodes :
        /\ q # <<>> /\ q # node
        /\ nodes[q].visit_count = 2 /\ ChildVisits(q) = 1
    /\ nodes[<<>>].visit_count = 2

\* v, from Black's perspective, is good for player
Favourable(v, player) == (player = Black /\ v > 0) \/ (player = White /\ v < 0)

BackpropagateStep == pc = "backprop" /\ pc' = "loop"

\* C7 as claimed: a value favourable to the player to move at a node
\* increases that node's total_value.
C7_OwnPerspective ==
    [][BackpropagateStep =>
        \A q \in DOMAIN nodes :
            (OnPath(q) /\ Favourable(value, nodes[q].turn))
                => nodes'[q].total_value > nodes[q].total_value]_vars

\* C7 as amended: total_value is kept from the perspective of the player who
\* moved into the node, the opponent of node.turn: a value favourable to
\* node.turn lowers total_value by its size and a value favourable to the
\* opponent raises it.
C7_ParentPerspective ==
    [][BackpropagateStep =>
        \A q \in DOMAIN nodes :
            OnPath(q) =>
                /\ Favourable(value, nodes[q].turn)
                      => nodes'[q].total_value < nodes[q].total_value
                /\ Favourable(value, opposite(nodes[q].turn))
                      => nodes'[q].total_value > nodes[q].total_value]_vars

\* a Black win has been backed up through a node where Black is to move
C7_Witness ==
    /\ pc = "loop" /\ loop_i >= 1
    /\ value > 0
    /\ \E q \in DOMAIN nodes :
        OnPath(q) /\ nodes[q].turn = Black /\ nodes[q].total_value < 0

VisitsOf(k) == nodes[RootChildren[k]].visit_count

\* C14: get_best_action on an engine whose board is already over never
\* returns an action, whatever n_iterations and the mode: the root gets no
\* child, and the final choice panics.
C14_TerminalNeverReturns ==
    [][mcts_board.outcome # NoOutcome =>
        /\ pc' # "done" /\ best_action' = <<>>
        /\ RootChildren = <<>>
        /\ pc = "choose" => pc' = "panic"]_vars

\* the exploratory choice has panicked on a drawn board after all iterations
C14_Witness ==
    /\ pc = "panic" /\ exploratory_play
    /\ mcts_board.outcome = Draw
    /\ n_iterations = MaxIterations /\ nodes[<<>>].visit_count = MaxIterations
    /\ best_action = <<>>

\* C15: in deterministic mode, once the iterations are done, the returned
\* action is that of a root child with the highest visit count, and of the
\* earliest such child in root-child order.
C15_FirstMostVisited ==
    (pc = "done" /\ ~exploratory_play) =>
        /\ loop_i = n_iterations
        /\ \E k \in 1 .. Len(RootChildren) :
            /\ best_action = nodes[RootChildren[k]].action[1]
            /\ \A j \in 1 .. Len(RootChildren) :
                /\ VisitsOf(j) <= VisitsOf(k)
                /\ j < k => VisitsOf(j) < VisitsOf(k)

\* two root children share the highest visit count and the earlier is chosen
C15_Witness ==
    /\ pc = "done" /\ ~exploratory_play
    /\ \E j, k \in 1 .. Len(RootChildren) :
        /\ j < k
        /\ VisitsOf(j) >= 1 /\ VisitsOf(j) = VisitsOf(k)
        /\ \A l \in 1 .. Len(RootChildren) : VisitsOf(l) <= VisitsOf(j)
        /\ best_action = nodes[RootChildren[j]].action[1]

\* C16: in exploratory mode with n_iterations >= 1 on a position that is
\* not over, the weights visit_count / root.visit_count are well defined and
\* sum to 1 (the children's visit counts sum to the root's, which is
\* n_iterations), the sampling does not fail, and the returned action is
\* that of a root child with a visit count above zero.
C16_SamplesVisitedChild ==
    (/\ exploratory_play /\ n_iterations >= 1
     /\ mcts_board # NoBoard /\ mcts_board.outcome = NoOutcome) =>
        /\ pc # "panic"
        /\ pc \in {"choose", "done"} =>
            /\ nodes[<<>>].visit_count = n_iterations
            /\ SumVisits(nodes, RootChildren) = nodes[<<>>].visit_count
        /\ pc = "done" =>
            \E k \in 1 .. Len(RootChildren) :
                /\ best_action = nodes[RootChildren[k]].action[1]
                /\ VisitsOf(k) > 0

\* an action was sampled while other root children were never visited
C16_Witness ==
    /\ pc = "done" /\ exploratory_play /\ n_iterations = MaxIterations
    /\ mcts_board.outcome = NoOutcome
    /\ \E j, k \in 1 .. Len(RootChildren) :
        /\ VisitsOf(j) = 0
        /\ VisitsOf(k) = 1 /\ best_action = nodes[RootChildren[k]].action[1]

\* two priors in thousandths that differ by rounding at most
PriorsAgree(p, q) == p - q \in {-1, 0, 1}

\* C17: in deterministic mode the noise step leaves every root child's
\* prior as the oracle gave it.
C17_NoNoiseInDeterministicMode ==
    [][(pc = "inject_noise" /\ ~exploratory_play) =>
        \A k \in 1 .. Len(RootChildren) :
            PriorsAgree(nodes'[RootChildren[k]].prior, nodes[RootChildren[k]].prior)]_vars

\* C21: after B2, A2, C3, A1, A3, B3, C1 on the 3x3 board every move has
\* been made and the game is over: Black's seventh stone, on C1, completes
\* the line A3-B2-C1.
C21_BasicsGameIsOver ==
    /\ (script = BasicsScript /\ pos <= Len(script)) => pc = "replay"
    /\ Replayed(BasicsScript) =>
        /\ result = "Ok"
        /\ board.num_stones_placed = 7
        /\ board.outcome # NoOutcome
        /\ board.outcome = Winner(Black)
        /\ \A i \in 0 .. 2 : Square(board, i, i) = Black

C21_Witness ==
    /\ Replayed(BasicsScript)
    /\ input = <<"C", "1">> /\ parsed = ParseOk(<<2, 2>>)
    /\ Square(board, 2, 2) = Black
    /\ board.outcome = Winner(Black)

\* a step that runs expand: on the root, or on the leaf selection stopped at
ExpandStep == pc = "expand_root" \/ (pc = "select" /\ pc' = "backprop")

\* C24: expand gives a node whose position is not over one child per legal
\* action, in legal-action order, with the opposite player and the oracle's
\* prior at flat index row*size+col; it gives a node whose position is over
\* no child; the root is expanded before the first iteration.
C24_ExpandOneChildPerLegalAction ==
    [][/\ ExpandStep =>
            LET p == IF pc = "expand_root" THEN <<>> ELSE node
                b == IF pc = "expand_root" THEN mcts_board ELSE scratch
                legal == b.legal_actions_indexset
                ch == nodes'[p].children
            IN  /\ nodes[p].children = <<>>
                /\ \A q \in DOMAIN nodes : q # p => nodes'[q] = nodes[q]
                /\ IF b.outcome # NoOutcome
                   THEN nodes' = nodes
                   ELSE /\ Len(ch) = Len(legal)
                        /\ DOMAIN nodes' = DOMAIN nodes \cup {ch[k] : k \in 1 .. Len(ch)}
                        /\ \E policies \in OraclePolicies(b.size * b.size) :
                            \A k \in 1 .. Len(ch) :
                                /\ ch[k] \notin DOMAIN nodes
                                /\ nodes'[ch[k]].action = <<legal[k]>>
                                /\ nodes'[ch[k]].turn # nodes[p].turn
                                /\ nodes'[ch[k]].prior
                                       = policies[legal[k][1] * b.size + legal[k][2] + 1]
                                /\ nodes'[ch[k]].children = <<>>
                                /\ nodes'[ch[k]].visit_count = 0
       /\ pc = "expand_root" => loop_i = 0 /\ nodes[<<>>].visit_count = 0
       /\ (pc = "loop" /\ pc' = "select") =>
            (nodes[<<>>].children # <<>> \/ mcts_board.outcome # NoOutcome)]_vars

\* a node below the root was expanded on a position whose legal actions are
\* no longer in row-major order, and the peak of the oracle's policy went to
\* the child of the last square
C24_Witness ==
    /\ pc = "backprop" /\ node # <<>>
    /\ scratch.outcome = NoOutcome
    /\ Len(nodes[node].children) = Len(scratch.legal_actions_indexset)
    /\ \E k \in 1 .. Len(nodes[node].children) :
        /\ nodes[nodes[node].children[k]].action = <<<<2, 2>>>>
        /\ k < Len(nodes[node].children)
        /\ nodes[nodes[node].children[k]].prior > Milli \div 2

\* C25: backpropagation adds 1 to the visit count of every node on the
\* selected path and to no other, changes the total_value of every node on
\* the path by the value or by its negative, with opposite signs on
\* adjacent nodes of the path, and leaves every node off the path as it was.
C25_BackpropagationFrame ==
    [][BackpropagateStep =>
        LET pp == parents_pointers
            Delta(q) == nodes'[q].total_value - nodes[q].total_value
        IN  /\ DOMAIN nodes' = DOMAIN nodes
            /\ \A j, k \in 1 .. Len(pp) : j # k => pp[j] # pp[k]
            /\ \A q \in DOMAIN nodes :
                IF \E k \in 1 .. Len(pp) : pp[k] = q
                THEN /\ nodes'[q].visit_count = nodes[q].visit_count + 1
                     /\ Delta(q) \in {value, -value}
                     /\ nodes'[q] = [nodes[q] EXCEPT !.visit_count = nodes'[q].visit_count,
                                                     !.total_value = nodes'[q].total_value]
                ELSE nodes'[q] = nodes[q]
            /\ \A k \in 1 .. Len(pp) - 1 : Delta(pp[k]) = -Delta(pp[k + 1])]_vars

\* a value that is not zero went up a path of three nodes
C25_Witness ==
    /\ pc = "loop" /\ loop_i >= 2
    /\ Len(parents_pointers) = 3 /\ value # 0
    /\ nodes[parents_pointers[3]].visit_count = 1
    /\ nodes[parents_pointers[2]].visit_count = 2
    /\ nodes[parents_pointers[3]].total_value \in {value, -value}

\* the actions of the selected path, from the root down
PathActions == [k \in 1 .. Len(parents_pointers) - 1 |-> nodes[parents_pointers[k + 1]].action[1]]

RECURSIVE ApplyActions(_, _)
ApplyActions(b, actions) ==
    IF actions = <<>> THEN b
    ELSE ApplyActions(make_action(b, Head(actions)).board, Tail(actions))

RECURSIVE AllOk(_, _)
AllOk(b, actions) ==
    \/ actions = <<>>
    \/ /\ b.outcome = NoOutcome
       /\ make_action(b, Head(actions)).result = "Ok"
       /\ AllOk(make_action(b, Head(actions)).board, Tail(actions))

\* C26: during an iteration the scratch board is the engine's position with
\* the actions of the selected path applied in order, each of them a
\* successful make_action on a game that is not over; selection stands on a
\* leaf whenever the scratch position is over; get_best_action leaves the
\* engine's board equal to the position it was built on.
C26_ScratchReplaysThePath ==
    /\ mcts_board # NoBoard => mcts_board = board
    /\ pc \in {"select", "backprop"} =>
        /\ parents_pointers[1] = <<>>
        /\ node = parents_pointers[Len(parents_pointers)]
        /\ AllOk(mcts_board, PathActions)
        /\ scratch = ApplyActions(mcts_board, PathActions)
        /\ scratch.num_stones_placed
               = mcts_board.num_stones_placed + Len(parents_pointers) - 1
        /\ scratch.outcome # NoOutcome => is_leaf(nodes[node])

\* selection has come a second time to a child whose position is a
\* finished game, and has stopped there
C26_Witness ==
    /\ pc = "backprop"
    /\ Len(parents_pointers) = 2
    /\ mcts_board.outcome = NoOutcome
    /\ scratch.outcome # NoOutcome
    /\ scratch.num_stones_placed = mcts_board.num_stones_placed + 1
    /\ nodes[node].visit_count = 1 /\ is_leaf(nodes[node])

RECURSIVE SumSeq(_)
SumSeq(s) == IF s = <<>> THEN 0 ELSE Head(s) + SumSeq(Tail(s))

\* C29: after get_best_action with n_iterations = n >= 1 on a position that
\* is not over, root.visit_count = n and the children's visit counts sum to
\* n; the flat policy, visit_count / n per child action, sums to 1 (in
\* thousandths: up to one thousandth of truncation per child) and is zero
\* at every square occupied at the root.
C29_PolicyIsADistribution ==
    (pc = "done" /\ n_iterations >= 1 /\ mcts_board.outcome = NoOutcome) =>
        /\ nodes[<<>>].visit_count = n_iterations
        /\ SumVisits(nodes, RootChildren) = n_iterations
        /\ Len(get_flat_policy) = mcts_board.size * mcts_board.size
        /\ SumSeq(get_flat_policy) \in Milli - Len(RootChildren) .. Milli
        /\ \A r, c \in 0 .. mcts_board.size - 1 :
            /\ get_flat_policy[r * mcts_board.size + c + 1] >= 0
            /\ Square(mcts_board, r, c) # Vacant
                  => get_flat_policy[r * mcts_board.size + c + 1] = 0

\* after A1, B1, A2, B2, C1 the search has visited B3, whose mirror square
\* A2 is occupied
C29_Witness ==
    /\ pc = "done" /\ n_iterations = MaxIterations
    /\ script = WhiteWinsScript
    /\ get_flat_policy[2] > 0
    /\ Square(mcts_board, 1, 0) # Vacant

(***************************************************************************)
(* game.rs: self_play_single_game.  Each ply an engine is built on the     *)
(* board and asked for an action in exploratory mode (with a positive      *)
(* number of simulations it returns an action of the legal set); the       *)
(* position is recorded before the action is made.  Of the recorded        *)
(* position the model keeps the turn entry, of the record the state and    *)
(* the value.                                                              *)
(***************************************************************************)
\* Player::to_f32, in thousandths
to_f32(player) == IF player = Black THEN Milli ELSE 0

\* the last entry of Board::to_flat_vec
TurnEntry(b) == to_f32(b.turn)

\* a value that counts a White win as +1
SelfPlayValueForWhite(b) ==
    IF b.outcome = Winner(Black) THEN -Milli
    ELSE IF b.outcome = Winner(White) THEN Milli
    ELSE 0

\* "Create values": the value written into every record of the game
SelfPlayValue(b) ==
    IF b.outcome = Winner(Black) THEN Milli
    ELSE IF b.outcome = Winner(White) THEN -Milli
    ELSE 0

\* the (size, n_in_a_row) pairs games are played on
SelfPlaySizes == {s \in (2 .. MaxSize) \X (2 .. MaxSize) : s[2] <= s[1]}

InitSelfPlay ==
    /\ overflow_checks = FALSE
    /\ board \in {BoardNew(s[1], s[2]) : s \in SelfPlaySizes}
    /\ result = "Ok"
    /\ ParseIdle
    /\ script = <<>> /\ pos = 1 /\ pc = "self_play"
    /\ exploratory_play = TRUE /\ n_iterations = 1
    /\ mcts_board = NoBoard /\ nodes = <<>> /\ loop_i = 0
    /\ scratch = NoBoard /\ node = <<>> /\ parents_pointers = <<>>
    /\ value = 0 /\ best_action = <<>>
    /\ board_vecs = <<>> /\ game_json = <<>>

\* one turn of the while loop
SelfPlayPly ==
    /\ pc = "self_play" /\ ~is_game_over(board)
    /\ \E i \in 1 .. Len(board.legal_actions_indexset) :
        LET r == make_action(board, board.legal_actions_indexset[i])
        IN  /\ best_action' = board.legal_actions_indexset[i]
            /\ board_vecs' = Append(board_vecs, TurnEntry(board))
            /\ board' = r.board
            /\ result' = r.result
    /\ UNCHANGED <<overflow_checks, pvars, script, pos, pc, exploratory_play, n_iterations,
                   mcts_board, nodes, loop_i, scratch, node, parents_pointers, value,
                   game_json>>

\* after the loop: the value of the game and one record per ply
WriteGame ==
    /\ pc = "self_play" /\ is_game_over(board)
    /\ value' = SelfPlayValue(board)
    /\ game_json' = [i \in 1 .. Len(board_vecs) |->
                        [state |-> board_vecs[i], value |-> value']]
    /\ pc' = "written"
    /\ UNCHANGED <<bvars, pvars, script, pos, exploratory_play, n_iterations, mcts_board,
                   nodes, loop_i, scratch, node, parents_pointers, best_action, board_vecs>>

NextSelfPlay ==
    \/ SelfPlayPly
    \/ WriteGame

SpecSelfPlay == InitSelfPlay /\ [][NextSelfPlay]_vars

(***************************************************************************)
(* Claims about the self-play record                                       *)
(***************************************************************************)
\* the player who was to move in the position of record i
MoverAt(i) == IF game_json[i].state = to_f32(Black) THEN Black ELSE White

\* C20 as claimed: every record carries the final outcome from the
\* perspective of the player to move at its ply: +1 when that player won,
\* -1 when that player lost, 0 for a draw.
C20_MoverPerspective ==
    pc = "written" =>
        \A i \in 1 .. Len(game_json) :
            game_json[i].value =
                IF board.outcome = Draw THEN 0
                ELSE IF board.outcome = Winner(MoverAt(i)) THEN Milli
                ELSE -Milli

\* C20 as amended: there is one record per ply, Black's plies being the odd
\* ones, and every record carries the same value, the final outcome from
\* Black's perspective: +1 when Black won, -1 when White won, 0 for a
\* draw, whoever was to move at the ply.
C20_BlackPerspective ==
    pc = "written" =>
        /\ Len(game_json) = board.num_stones_placed
        /\ \A i \in 1 .. Len(game_json) :
            /\ MoverAt(i) = IF i % 2 = 1 THEN Black ELSE White
            /\ game_json[i].value =
                IF board.outcome = Draw THEN 0
                ELSE IF board.outcome = Winner(Black) THEN Milli
                ELSE -Milli

\* White has won: the record of White's first ply carries -1
C20_Witness ==
    /\ pc = "written" /\ board.outcome = Winner(White)
    /\ MoverAt(2) = White
    /\ game_json[2].value = -Milli

(***************************************************************************)
(* The position handed to the oracle: expand calls                         *)
(* get_torchjit_policy_value on board.to_flat_tensor(), the tensor of      *)
(* Board::to_flat_array.                                                   *)
(***************************************************************************)
\* Board::to_flat_array: size*size entries for the in-board squares, row by
\* row, then the turn; the array starts as zeros and an occupied square
\* gets its player's to_f32
to_flat_array(b) ==
    [i \in 1 .. b.size * b.size + 1 |->
        IF i = b.size * b.size + 1 THEN to_f32(b.turn)
        ELSE LET row_index == (i - 1) \div b.size
                 col_index == (i - 1) % b.size
                 square_state == b.base_board[<<row_index + b.n_in_a_row - 1,
                                                col_index + b.n_in_a_row - 1>>]
             IN  IF square_state = Vacant THEN 0 ELSE to_f32(square_state)]

\* C28: in the encoding given to the oracle Black stones, White stones and
\* vacant squares are distinguishable: squares in different states have
\* different entries, and the two positions reached by putting the mover's
\* stone on two different squares have different encodings.
C28_EncodingDistinguishesSquares ==
    (Running /\ board.outcome = NoOutcome) =>
        /\ \A a, c \in BoardActions(board.size) :
            Square(board, a[1], a[2]) # Square(board, c[1], c[2])
                => to_flat_array(board)[a[1] * board.size + a[2] + 1]
                       # to_flat_array(board)[c[1] * board.size + c[2] + 1]
        /\ \A a, c \in VacantSquares(board) :
            a # c => to_flat_array(make_action(board, a).board)
                         # to_flat_array(make_action(board, c).board)

(***************************************************************************)
(* mcts.rs: rollout, and the same loop in play_random_game: while the game *)
(* is not over, a legal action is drawn at random and made; a program that *)
(* is in the loop takes its next step.                                     *)
(***************************************************************************)
\* utils.rs get_random_action: the indices gen_range(0..len) may return;
\* an empty range panics
get_random_action(legal_moves) == 1 .. Len(legal_moves)

\* the (size, n_in_a_row) pairs random games are played on
RolloutSizes == {s \in (2 .. MaxSize) \X (2 .. MaxSize) : s[2] <= s[1]}

\* rollout is handed a position of a game under way: where a full row makes
\* the line, the first three squares of the first row have been played
RolloutOpening == <<<<0, 0>>, <<0, 1>>, <<0, 2>>>>

RolloutStart(size, n_in_a_row) ==
    IF size >= 3 /\ n_in_a_row = size
    THEN ApplyActions(BoardNew(size, n_in_a_row), RolloutOpening)
    ELSE BoardNew(size, n_in_a_row)

InitRollout ==
    /\ overflow_checks = FALSE
    /\ board \in {RolloutStart(s[1], s[2]) : s \in RolloutSizes}
    /\ result = "Ok"
    /\ ParseIdle
    /\ script = <<>> /\ pos = 1 /\ pc = "rollout"
    /\ exploratory_play = FALSE /\ n_iterations = 0
    /\ mcts_board = NoBoard /\ nodes = <<>> /\ loop_i = 0
    /\ scratch = NoBoard /\ node = <<>> /\ parents_pointers = <<>>
    /\ value = 0 /\ best_action = <<>>
    /\ SelfPlayIdle

\* one turn of the while loop: get_random_action, make_action(..).expect(..)
RolloutStep ==
    /\ pc = "rollout" /\ ~is_game_over(board)
    /\ IF get_random_action(board.legal_actions_indexset) = {}
       THEN pc' = "panic" /\ UNCHANGED <<board, result, best_action>>
       ELSE \E i \in get_random_action(board.legal_actions_indexset) :
                LET r == make_action(board, board.legal_actions_indexset[i])
                IN  /\ best_action' = board.legal_actions_indexset[i]
                    /\ board' = r.board
                    /\ result' = r.result
                    /\ pc' = IF r.result = "Ok" THEN "rollout" ELSE "panic"
    /\ UNCHANGED <<jvars, overflow_checks, pvars, script, pos, exploratory_play,
                   n_iterations, mcts_board, nodes, loop_i, scratch, node,
                   parents_pointers, value>>

\* the loop condition fails: board.outcome.expect(..) is returned
RolloutReturn ==
    /\ pc = "rollout" /\ is_game_over(board)
    /\ pc' = "returned"
    /\ UNCHANGED <<jvars, bvars, pvars, script, pos, exploratory_play, n_iterations,
                   mcts_board, nodes, loop_i, scratch, node, parents_pointers, value,
                   best_action>>

NextRollout ==
    \/ RolloutStep
    \/ RolloutReturn

SpecRollout == InitRollout /\ [][NextRollout]_vars /\ WF_vars(NextRollout)

(***************************************************************************)
(* Claims about random games                                               *)
(***************************************************************************)
\* C31: every game played with legal actions terminates: while the outcome
\* is undetermined the legal-action set is not empty, every turn of the loop
\* is a successful make_action that places exactly one stone, there are
\* never more than size*size stones, and the loop ends with the outcome set.
C31_RandomGamesTerminate ==
    /\ []((pc = "rollout" /\ board.outcome = NoOutcome) =>
            /\ Len(board.legal_actions_indexset) > 0
            /\ board.num_stones_placed < board.size * board.size)
    /\ [](pc # "panic" /\ board.num_stones_placed <= board.size * board.size)
    /\ [][pc' = "rollout" =>
            /\ result' = "Ok"
            /\ board'.num_stones_placed = board.num_stones_placed + 1]_vars
    /\ <>(pc = "returned" /\ board.outcome # NoOutcome)

\* a game that took all size*size stones has ended, in a draw
C31_Witness ==
    /\ pc = "returned"
    /\ board.size = 3
    /\ board.num_stones_placed = board.size * board.size
    /\ board.outcome = Draw
    /\ board.legal_actions_indexset = <<>>

====
